---- MODULE Spec2Model ----
(***************************************************************************)
(* Model of the crawl / chunk / query pipeline of Python_Scraper.          *)
(*                                                                         *)
(*   1_crawl_site_bs4.py     WebsiteCrawler (clean_url, is_valid_url,      *)
(*                           get_mime_type, save_content, crawl), main     *)
(*   2b_process_html_bs4.py  chunk_text, main                              *)
(*   4_query_graph.py        query_knowledge_graph, main                   *)
(*   graphrag_utils.py       GraphRAGManager                               *)
(*                                                                         *)
(* Python strings are modelled as sequences of one-character strings, so   *)
(* that strip, replace, split, join, startswith and the substring test act *)
(* on characters as they do in the code.  An operator that needs an        *)
(* intermediate value several times takes it as a parameter of a helper    *)
(* operator (OpAt, OpOf ...), so that the value is computed once.          *)
(***************************************************************************)
EXTENDS Integers, Sequences, FiniteSets, TLC

VARIABLES
    \* ---- WebsiteCrawler (1_crawl_site_bs4.py) ----
    start_url,        \* self.start_url
    domain,           \* self.domain
    max_depth,        \* self.max_depth
    max_downloads,    \* self.max_downloads
    visited_urls,     \* self.visited_urls
    download_count,   \* self.download_count
    files,            \* the output folder: filename -> content written last
    site,             \* the web server: address -> the response it gives
    stack,            \* the crawl() calls that are inside their link loop
    cur,              \* the crawl() call being executed: [url, depth]
    pc,               \* "call", "fetch", "links", "done" or "raised"
    response,         \* the outcome of the last requests.get: [url, status]
    fetches,          \* history: address -> number of requests.get issued for it
    saves,            \* history: address -> number of save_content calls for it
    \* ---- the stages run one after another (the two main functions) ----
    stage,            \* the main that runs: "crawl", "chunk", or "chunk_end"
    runs,             \* number of stage runs started so far
    written,          \* history: names of the files the current run wrote
    processed,        \* the names of the files in PROCESSED_DATA_DIR
    pending,          \* 2b main: the html_files still to process
    arrived,          \* history: the html_files processed, in the order of the loop
    normalized,       \* history: html_file -> the markdown_lines made for it
    all_documents,    \* 2b main: the list all_documents
    docs_file,        \* the lines of processed_documents.jsonl
    \* ---- clean_url called on its own ----
    clean_arg,        \* the url argument
    clean_result,     \* what the call gave
    \* ---- chunk_text (2b_process_html_bs4.py) ----
    text,             \* the text argument
    chunk_size,       \* the chunk_size argument
    overlap,          \* the overlap argument
    chunks,           \* the list chunks
    start,            \* the cursor start, at the top of the while loop
    contexts,         \* history: for each chunk, how many of its leading
                      \* characters lie before the end of the previous slice
    slices,           \* history: the <<start, end>> of every text[start:end] taken
    chunk_pc,         \* "loop", "returned", "IndexError" or "idle"
    \* ---- query_knowledge_graph (4_query_graph.py) ----
    query_text,       \* the question being answered
    answer,           \* what query_knowledge_graph gave its caller
    query_pc,         \* "input", "init", "query", "close", "exit" or "raised"
    asked,            \* number of questions read so far
    driver_open,      \* whether a Neo4j driver is open
    db_up,            \* the graph database accepts connections
    embedder_ok,      \* the embedding model loads and encodes
    llm_up,           \* the LLM answers
    llm_run_env       \* MY_CONFIG.LLM_RUN_ENV

config == <<start_url, domain, max_depth, max_downloads, site>>
crawlVars == <<config, visited_urls, download_count, files, stack, cur, pc,
               response, fetches, saves>>
runVars == <<stage, runs, written, processed, pending, arrived, normalized,
             all_documents, docs_file>>
cleanVars == <<clean_arg, clean_result>>
chunkVars == <<text, chunk_size, overlap, chunks, start, contexts, slices, chunk_pc>>
queryVars == <<query_text, answer, query_pc, asked, driver_open, db_up, embedder_ok,
               llm_up, llm_run_env>>
vars == <<crawlVars, runVars, cleanVars, chunkVars, queryVars>>

(***************************************************************************)
(* Characters and strings                                                  *)
(***************************************************************************)

\* U+00A0, the non-breaking space of clean_url's replace('\xa0', '')
NBSP == "nbsp"

\* what str.strip() removes: Unicode whitespace, U+00A0 included
IsSpace(c) == c \in {" ", "\t", "\n", "\r", NBSP}

StartsWith(s, p) == Len(s) >= Len(p) /\ SubSeq(s, 1, Len(p)) = p

EndsWith(s, suffix) ==
    Len(s) >= Len(suffix) /\ SubSeq(s, Len(s) - Len(suffix) + 1, Len(s)) = suffix

\* s[i:] with i counted from 1
From(s, i) == SubSeq(s, i, Len(s))

\* s[:-1]
DropLast(s) == SubSeq(s, 1, Len(s) - 1)

\* the number of whitespace characters s begins with
LeadingSpace(s) ==
    IF \A i \in 1..Len(s) : IsSpace(s[i]) THEN Len(s)
    ELSE (CHOOSE i \in 1..Len(s) : ~IsSpace(s[i]) /\ \A j \in 1..(i - 1) : IsSpace(s[j])) - 1

\* the number of whitespace characters s ends with
TrailingSpace(s) ==
    IF \A i \in 1..Len(s) : IsSpace(s[i]) THEN Len(s)
    ELSE Len(s) - (CHOOSE i \in 1..Len(s) :
                     ~IsSpace(s[i]) /\ \A j \in (i + 1)..Len(s) : IsSpace(s[j]))

\* str.lstrip()
LStrip(s) == From(s, LeadingSpace(s) + 1)

\* str.rstrip()
RStrip(s) == SubSeq(s, 1, Len(s) - TrailingSpace(s))

\* str.strip()
Strip(s) == RStrip(LStrip(s))

RECURSIVE LStripChar(_, _)
LStripChar(s, c) == IF s # <<>> /\ s[1] = c THEN LStripChar(Tail(s), c) ELSE s

RECURSIVE RStripChar(_, _)
RStripChar(s, c) == IF s # <<>> /\ s[Len(s)] = c THEN RStripChar(DropLast(s), c) ELSE s

\* str.strip(c)
StripChar(s, c) == RStripChar(LStripChar(s, c), c)

\* str.replace(c, '') for one character c
RemoveChar(s, c) == SelectSeq(s, LAMBDA x : x # c)

\* str.replace(a, b) for characters a, b
ReplaceChar(s, a, b) == [i \in 1..Len(s) |-> IF s[i] = a THEN b ELSE s[i]]

\* c in s, for a character c
HasChar(s, c) == \E i \in 1..Len(s) : s[i] = c

\* sub in s, for a string sub ('' is in every string)
Contains(s, sub) ==
    \E i \in 1..(Len(s) - Len(sub) + 1) : SubSeq(s, i, i + Len(sub) - 1) = sub

\* str.find over a set of characters: the first index >= from, or 0
FindAny(s, cs, from) ==
    IF \E i \in from..Len(s) : s[i] \in cs
    THEN CHOOSE i \in from..Len(s) : s[i] \in cs /\ \A j \in from..(i - 1) : s[j] \notin cs
    ELSE 0

\* str.rfind(c): the last index, or 0
RFind(s, c) ==
    IF HasChar(s, c)
    THEN CHOOSE i \in 1..Len(s) : s[i] = c /\ \A j \in (i + 1)..Len(s) : s[j] # c
    ELSE 0

\* s cut at index i (0: not found): what is before it and what is after it
CutAt(s, i) ==
    [head |-> IF i = 0 THEN s ELSE SubSeq(s, 1, i - 1),
     tail |-> IF i = 0 THEN <<>> ELSE From(s, i + 1)]

\* s.split(c, 1), with an empty tail when c is not in s
Cut(s, c) == CutAt(s, FindAny(s, {c}, 1))

\* str.split(c): always at least one part
RECURSIVE Split(_, _)
Split(s, c) ==
    IF ~HasChar(s, c) THEN <<s>> ELSE <<Cut(s, c).head>> \o Split(Cut(s, c).tail, c)

\* c.join(parts)
RECURSIVE Join(_, _)
Join(parts, c) ==
    IF parts = <<>> THEN <<>>
    ELSE IF Len(parts) = 1 THEN parts[1]
    ELSE parts[1] \o <<c>> \o Join(Tail(parts), c)

\* the strings of a list, one after the other
RECURSIVE Concat(_)
Concat(ss) == IF ss = <<>> THEN <<>> ELSE Head(ss) \o Concat(Tail(ss))

\* str.replace(old, ''): leftmost, non-overlapping
RECURSIVE RemoveAll(_, _)
RemoveAll(s, old) ==
    IF old = <<>> \/ Len(s) < Len(old) THEN s
    ELSE IF StartsWith(s, old) THEN RemoveAll(From(s, Len(old) + 1), old)
    ELSE <<s[1]>> \o RemoveAll(Tail(s), old)

\* c repeated n times
Rep(c, n) == [i \in 1..n |-> c]

\* what a call gives: a string, None, or a raised ValueError
Str(s) == [kind |-> "str", val |-> s]
None == [kind |-> "None", val |-> <<>>]
ValueError == [kind |-> "ValueError", val |-> <<>>]

(***************************************************************************)
(* urllib.parse: urlparse, urlunparse and urljoin, as the crawler uses     *)
(* them.  Addresses hold lower-case letters only, and a bracketed netloc   *)
(* appears only unmatched, which every Python 3 rejects.                   *)
(***************************************************************************)

Letters == {"a", "b", "c", "d", "e", "f", "g", "h", "i", "j", "k", "l", "m",
            "n", "o", "p", "q", "r", "s", "t", "u", "v", "w", "x", "y", "z"}
SchemeChars == Letters \cup {"0", "1", "2", "3", "4", "5", "6", "7", "8", "9", "+", "-", "."}

\* the schemes of urllib's uses_relative, uses_netloc and uses_params lists that
\* the modelled addresses can carry (each of the three lists holds all of them)
KnownSchemes == {<<"h", "t", "t", "p">>, <<"h", "t", "t", "p", "s">>, <<"f", "t", "p">>}

\* urlsplit: url.lstrip(_WHATWG_C0_CONTROL_OR_SPACE) (the space and the C0
\* controls, not U+00A0), then tab, CR and LF removed everywhere
RECURSIVE LStripC0(_)
LStripC0(s) == IF s # <<>> /\ s[1] \in {" ", "\t", "\n", "\r"} THEN LStripC0(Tail(s)) ELSE s

UrlSplitNormalise(url) == SelectSeq(LStripC0(url), LAMBDA c : c \notin {"\t", "\r", "\n"})

\* urlsplit: i, the index of the first ':', ends a scheme when a letter and
\* scheme characters come before it
SchemeEndAt(url, i) ==
    IF i > 1 /\ url[1] \in Letters /\ \A j \in 1..(i - 1) : url[j] \in SchemeChars
    THEN i ELSE 0

SchemeEnd(url) == SchemeEndAt(url, FindAny(url, {":"}, 1))

\* urlsplit: the scheme and what follows it
UrlSplitScheme(url, default, se) ==
    [scheme |-> IF se = 0 THEN default ELSE SubSeq(url, 1, se - 1),
     rest   |-> IF se = 0 THEN url ELSE From(url, se + 1)]

\* _splitnetloc: the netloc ends at the first of '/', '?', '#' (index ne)
SplitNetlocAt(after, ne) ==
    [netloc |-> IF ne = 0 THEN after ELSE SubSeq(after, 1, ne - 1),
     rest   |-> IF ne = 0 THEN <<>> ELSE From(after, ne)]

\* urlsplit: if url[:2] == '//': netloc, url = _splitnetloc(url, 2)
UrlSplitNetloc(rest) ==
    IF StartsWith(rest, <<"/", "/">>)
    THEN SplitNetlocAt(From(rest, 3), FindAny(From(rest, 3), {"/", "?", "#"}, 1))
    ELSE [netloc |-> <<>>, rest |-> rest]

\* urlparse: _splitparams, the first ';' at or after the last '/'
SplitParams(scheme, url) ==
    IF (scheme = <<>> \/ scheme \in KnownSchemes) /\ HasChar(url, ";")
    THEN CutAt(url, FindAny(url, {";"}, IF HasChar(url, "/") THEN RFind(url, "/") ELSE 1))
    ELSE [head |-> url, tail |-> <<>>]

\* the result of urlparse; `raises` stands for urlsplit's
\* ValueError("Invalid IPv6 URL") on a netloc with an unmatched bracket
ParseResult(scheme, netloc, fragment, query, p) ==
    [raises |-> HasChar(netloc, "[") # HasChar(netloc, "]"),
     scheme |-> scheme, netloc |-> netloc, path |-> p.head, params |-> p.tail,
     query |-> query, fragment |-> fragment]

UrlParseQuery(scheme, netloc, fragment, q) ==
    ParseResult(scheme, netloc, fragment, q.tail, SplitParams(scheme, q.head))

UrlParseFragment(scheme, netloc, f) ==
    UrlParseQuery(scheme, netloc, f.tail, Cut(f.head, "?"))

UrlParseNetloc(scheme, n) == UrlParseFragment(scheme, n.netloc, Cut(n.rest, "#"))

UrlParseScheme(s) == UrlParseNetloc(s.scheme, UrlSplitNetloc(s.rest))

UrlParseNormalised(url, default) ==
    UrlParseScheme(UrlSplitScheme(url, default, SchemeEnd(url)))

\* urlparse(url, scheme)
UrlParseDefault(url, default) == UrlParseNormalised(UrlSplitNormalise(url), default)

\* urlparse(url)
UrlParse(url) == UrlParseDefault(url, <<>>)

\* urlunparse: if params: url = "%s;%s" % (url, params)
UnparseParams(path, params) == IF params = <<>> THEN path ELSE path \o <<";">> \o params

\* urlunsplit, the netloc
UnparseNetloc(scheme, netloc, url) ==
    IF netloc # <<>> \/ (scheme \in KnownSchemes /\ ~StartsWith(url, <<"/", "/">>))
    THEN <<"/", "/">> \o netloc \o (IF url # <<>> /\ url[1] # "/" THEN <<"/">> ELSE <<>>) \o url
    ELSE url

\* urlunsplit, the scheme, the query and the fragment
UnparseRest(scheme, url, query, fragment) ==
    (IF scheme # <<>> THEN scheme \o <<":">> ELSE <<>>) \o url
    \o (IF query # <<>> THEN <<"?">> \o query ELSE <<>>)
    \o (IF fragment # <<>> THEN <<"#">> \o fragment ELSE <<>>)

\* urlunparse
UrlUnparse(p) ==
    UnparseRest(p.scheme, UnparseNetloc(p.scheme, p.netloc, UnparseParams(p.path, p.params)),
                p.query, p.fragment)

\* urljoin: the loop that resolves '.' and '..' segments
RECURSIVE ResolveDots(_, _)
ResolveDots(segments, acc) ==
    IF segments = <<>> THEN acc
    ELSE IF segments[1] = <<".", ".">>
         THEN ResolveDots(Tail(segments), IF acc = <<>> THEN acc ELSE DropLast(acc))
    ELSE IF segments[1] = <<".">> THEN ResolveDots(Tail(segments), acc)
    ELSE ResolveDots(Tail(segments), Append(acc, segments[1]))

\* urljoin: base_parts, without a last item that is not a directory
BaseParts(parts) == IF parts[Len(parts)] # <<>> THEN DropLast(parts) ELSE parts

\* urljoin: segments[1:-1] = filter(None, segments[1:-1])
FilterMiddle(segments) ==
    IF Len(segments) <= 2 THEN segments
    ELSE <<segments[1]>>
         \o SelectSeq(SubSeq(segments, 2, Len(segments) - 1), LAMBDA x : x # <<>>)
         \o <<segments[Len(segments)]>>

\* urljoin: the segments of the joined path
JoinSegments(bpath, path) ==
    IF StartsWith(path, <<"/">>) THEN Split(path, "/")
    ELSE FilterMiddle(BaseParts(Split(bpath, "/")) \o Split(path, "/"))

\* urljoin: '/'.join(resolved_path) or '/'
PathOrRoot(path) == IF path = <<>> THEN <<"/">> ELSE path

ResolvedPath(segments) ==
    PathOrRoot(Join(ResolveDots(segments, <<>>)
                    \o (IF segments[Len(segments)] \in {<<".">>, <<".", ".">>}
                        THEN <<<<>>>> ELSE <<>>), "/"))

\* urljoin: the components of the result when the schemes agree
JoinComponents(b, u) ==
    IF u.netloc # <<>> THEN u
    ELSE IF u.path = <<>> /\ u.params = <<>>
    THEN [u EXCEPT !.netloc = b.netloc, !.path = b.path, !.params = b.params,
                   !.query = IF u.query = <<>> THEN b.query ELSE u.query]
    ELSE [u EXCEPT !.netloc = b.netloc, !.path = ResolvedPath(JoinSegments(b.path, u.path))]

UrlJoinParsed(url, b, u) ==
    IF u.raises THEN ValueError
    ELSE IF u.scheme # b.scheme \/ u.scheme \notin KnownSchemes THEN Str(url)
    ELSE Str(UrlUnparse(JoinComponents(b, u)))

UrlJoinBase(url, b) ==
    IF b.raises THEN ValueError ELSE UrlJoinParsed(url, b, UrlParseDefault(url, b.scheme))

\* urllib.parse.urljoin(base, url): a string, or ValueError when a parse raises
UrlJoin(base, url) ==
    IF base = <<>> THEN Str(url)
    ELSE IF url = <<>> THEN Str(base)
    ELSE UrlJoinBase(url, UrlParse(base))

(***************************************************************************)
(* WebsiteCrawler: the methods without side effect                         *)
(***************************************************************************)

HttpPrefix == <<"h", "t", "t", "p", ":", "/", "/">>
HttpsPrefix == <<"h", "t", "t", "p", "s", ":", "/", "/">>

\* the 500 of clean_url's len(parsed.path) > 500
MaxPathLen == 500

\* __init__: self.domain = urlparse(start_url).netloc
DomainOf(seed) == UrlParse(seed).netloc

\* clean_url: the path without the parts that hold the domain
CleanPath(dom, path) ==
    Join(SelectSeq(Split(path, "/"), LAMBDA part : ~Contains(part, dom)), "/")

\* clean_url: the address put together again
CleanAssemble(parsed, clean_path) ==
    parsed.scheme \o <<":", "/", "/">> \o parsed.netloc \o clean_path
    \o (IF parsed.query # <<>> THEN <<"?">> \o parsed.query ELSE <<>>)

CleanParsed(dom, parsed) ==
    IF parsed.raises THEN ValueError
    ELSE IF Len(parsed.path) > MaxPathLen \/ HasChar(parsed.path, " ") THEN None
    ELSE Str(CleanAssemble(parsed, CleanPath(dom, parsed.path)))

CleanStripped(dom, url) ==
    IF ~(StartsWith(url, HttpPrefix) \/ StartsWith(url, HttpsPrefix)) THEN None
    ELSE CleanParsed(dom, UrlParse(url))

\* clean_url(url) of a crawler whose domain is dom: the cleaned address, None,
\* or ValueError when urlparse raises (clean_url has no try)
CleanUrl(dom, url) == CleanStripped(dom, RemoveChar(Strip(url), NBSP))

\* a validity test that forgets the host
IsValidParsedAnyHost(dom, parsed) == ~parsed.raises

\* is_valid_url(url): urlparse inside try/except, False when it raises
IsValidParsed(dom, parsed) == ~parsed.raises /\ parsed.netloc = dom

IsValidUrl(dom, url) == IsValidParsed(dom, UrlParse(url))

\* the capital letters and their small forms
LowerOf ==
    "A" :> "a" @@ "B" :> "b" @@ "C" :> "c" @@ "D" :> "d" @@ "E" :> "e" @@ "F" :> "f"
      @@ "G" :> "g" @@ "H" :> "h" @@ "I" :> "i" @@ "J" :> "j" @@ "K" :> "k" @@ "L" :> "l"
      @@ "M" :> "m" @@ "N" :> "n" @@ "O" :> "o" @@ "P" :> "p" @@ "Q" :> "q" @@ "R" :> "r"
      @@ "S" :> "s" @@ "T" :> "t" @@ "U" :> "u" @@ "V" :> "v" @@ "W" :> "w" @@ "X" :> "x"
      @@ "Y" :> "y" @@ "Z" :> "z"

\* str.lower()
Lower(s) == [i \in 1..Len(s) |-> IF s[i] \in DOMAIN LowerOf THEN LowerOf[s[i]] ELSE s[i]]

TextHtml == <<"t", "e", "x", "t", "/", "h", "t", "m", "l">>
ApplicationPdf == <<"a", "p", "p", "l", "i", "c", "a", "t", "i", "o", "n", "/", "p", "d", "f">>
OctetStream == <<"a", "p", "p", "l", "i", "c", "a", "t", "i", "o", "n", "/", "o", "c", "t", "e", "t", "-", "s", "t", "r", "e", "a", "m">>

\* mimetypes.guess_type(path)[0], for the extensions the model's addresses carry;
\* <<>> stands for None
GuessType(path) ==
    IF EndsWith(path, <<".", "h", "t", "m", "l">>) THEN TextHtml
    ELSE IF EndsWith(path, <<".", "p", "d", "f">>) THEN ApplicationPdf
    ELSE <<>>

\* mimetypes.guess_extension(mime_type) or '.bin'
GuessExtension(mime_type) ==
    IF mime_type = ApplicationPdf THEN <<".", "p", "d", "f">>
    ELSE IF mime_type = TextHtml THEN <<".", "h", "t", "m", "l">>
    ELSE <<".", "b", "i", "n">>

\* get_mime_type: without a Content-Type, a guess from the path; else octet-stream
MimeOrGuess(content_type, guess) ==
    IF content_type # <<>> THEN content_type
    ELSE IF guess # <<>> THEN guess ELSE OctetStream

\* get_mime_type(response): the Content-Type header up to ';', lower-cased
GetMimeType(url, content_type_header) ==
    MimeOrGuess(Lower(Split(content_type_header, ";")[1]), GuessType(UrlParse(url).path))

\* a name that forgets the path of the address
FileNameOfIndexOnly(stripped, mime_type) ==
    <<"i", "n", "d", "e", "x">> \o (IF mime_type = TextHtml THEN <<"_", "t", "e", "x", "t", ".", "h", "t", "m", "l">> ELSE GuessExtension(mime_type))

\* save_content: 'index' for an empty name, '/' made '_', and the suffix
FileNameOf(stripped, mime_type) ==
    ReplaceChar(IF stripped = <<>> THEN <<"i", "n", "d", "e", "x">> ELSE stripped, "/", "_")
    \o (IF mime_type = TextHtml THEN <<"_", "t", "e", "x", "t", ".", "h", "t", "m", "l">> ELSE GuessExtension(mime_type))

\* save_content: the file name derived from the address
FileName(seed, url, mime_type) ==
    FileNameOf(StripChar(RemoveAll(url, seed), "/"), mime_type)

\* save_content: what is written, prettified markup or the raw bytes
FileContent(url, mime_type) ==
    [from |-> url, form |-> IF mime_type = TextHtml THEN "prettified" ELSE "raw"]

\* a status test that lets client errors through
RaiseForStatusServerOnly(status) == 500 <= status /\ status < 600

\* response.raise_for_status(): HTTPError for a 4xx or 5xx status, nothing else
RaiseForStatus(status) == 400 <= status /\ status < 600

(***************************************************************************)
(* The crawl: inputs                                                       *)
(***************************************************************************)

\* bounds of the inputs
MaxDepthBound == 2
MaxDownloadsBound == 4
MaxLinks == 2

SeedUrl == <<"h", "t", "t", "p", ":", "/", "/", "e", ".", "o", "r", "g">>

\* href attributes a page can carry
HrefA == <<"/", "a">>
HrefB == <<"/", "b">>
HrefC == <<"/", "c">>
HrefRoot == <<"/">>
HrefOther == <<"h", "t", "t", "p", "s", ":", "/", "/", "o", ".", "o", "r", "g", "/">>
HrefSpace == <<"/", "a", " ", "b">>
HrefDup == <<"/", "e", ".", "o", "r", "g", "/", "b">>
HrefBracket == <<"h", "t", "t", "p", ":", "/", "/", "[">>
HrefNbsp == <<"h", "t", "t", "p", "s", ":", NBSP, "/", "/", "[", "x">>
HrefEmpty == <<>>

Hrefs == {HrefA, HrefB, HrefC, HrefRoot, HrefOther, HrefSpace, HrefEmpty}

\* the sequences over S of length at most n
RECURSIVE SeqsUpTo(_, _)
SeqsUpTo(S, n) ==
    IF n = 0 THEN {<<>>}
    ELSE UNION {{q, Append(q, x)} : q \in SeqsUpTo(S, n - 1), x \in S}

\* addresses of the site
UrlA == <<"h", "t", "t", "p", ":", "/", "/", "e", ".", "o", "r", "g", "/", "a">>
UrlB == <<"h", "t", "t", "p", ":", "/", "/", "e", ".", "o", "r", "g", "/", "b">>
UrlC == <<"h", "t", "t", "p", ":", "/", "/", "e", ".", "o", "r", "g", "/", "c">>
UrlRoot == <<"h", "t", "t", "p", ":", "/", "/", "e", ".", "o", "r", "g", "/">>
UrlOther == <<"h", "t", "t", "p", "s", ":", "/", "/", "o", ".", "o", "r", "g", "/">>

\* Content-Type headers
HtmlUtf8 == <<"t", "e", "x", "t", "/", "h", "t", "m", "l", ";", " ", "c", "h", "a", "r", "s", "e", "t", "=", "u", "t", "f", "-", "8">>
HtmlUpper == <<"T", "e", "x", "t", "/", "H", "T", "M", "L">>
NoHeader == <<>>

\* what the server holds at an address: the Content-Type header it sends and
\* the href attributes of the <a> elements of the body, in document order
Page(content_type, links) == [content_type |-> content_type, links |-> links]

\* what the pages other than the seed page hold: a chain with a cycle; a self
\* link, a link off the domain and a binary resource; a duplicated host
\* segment, malformed addresses and resources served without a Content-Type
Wirings ==
    { (UrlA :> Page(TextHtml, <<HrefB>>) @@ UrlB :> Page(HtmlUtf8, <<HrefC>>)
         @@ UrlC :> Page(TextHtml, <<HrefA, HrefRoot>>)
         @@ UrlRoot :> Page(TextHtml, <<HrefA>>)
         @@ UrlOther :> Page(TextHtml, <<HrefA>>)),
      (UrlA :> Page(HtmlUpper, <<HrefA, HrefOther>>)
         @@ UrlB :> Page(ApplicationPdf, <<HrefC>>)
         @@ UrlC :> Page(TextHtml, <<>>)
         @@ UrlOther :> Page(TextHtml, <<HrefC>>)),
      (UrlA :> Page(TextHtml, <<HrefEmpty, HrefDup>>)
         @@ UrlB :> Page(TextHtml, <<HrefBracket, HrefC>>)
         @@ UrlC :> Page(NoHeader, <<HrefA>>)
         @@ UrlRoot :> Page(TextHtml, <<HrefNbsp, HrefB>>)) }

\* the sites: every list of at most MaxLinks hrefs on the seed page, over every
\* wiring of the other pages
Sites ==
    { (SeedUrl :> Page(TextHtml, seedLinks)) @@ w :
        seedLinks \in SeqsUpTo(Hrefs, MaxLinks), w \in Wirings }

\* HTTP statuses a fetch can end with; a 3xx that requests does not follow
\* (300, 304, or one without Location) is returned as the response
OkStatuses == {200, 300}
ErrorStatuses == {404, 503}

\* stands for requests.get raising ConnectionError: there is no status
ConnectionError == 0

(***************************************************************************)
(* WebsiteCrawler.crawl, one action per step of a call                     *)
(***************************************************************************)

NoResponse == [url |-> <<>>, status |-> -1]

\* the variables of the other entry points while the crawl stage runs
CleanIdle == clean_arg = <<>> /\ clean_result = [kind |-> "idle", val |-> <<>>]

ChunkIdle ==
    /\ text = <<>> /\ chunk_size = 0 /\ overlap = 0 /\ chunks = <<>> /\ start = 0
    /\ contexts = <<>> /\ slices = <<>> /\ chunk_pc = "idle"

QueryIdle ==
    /\ query_text = "" /\ answer = [kind |-> "idle", val |-> ""] /\ query_pc = "idle"
    /\ asked = 0 /\ driver_open = FALSE /\ db_up = TRUE /\ embedder_ok = TRUE
    /\ llm_up = TRUE /\ llm_run_env = "local_ollama"

CrawlIdle ==
    /\ start_url = <<>> /\ domain = <<>> /\ max_depth = 0 /\ max_downloads = 0
    /\ visited_urls = {} /\ download_count = 0 /\ files = <<>> /\ site = <<>>
    /\ stack = <<>> /\ cur = [url |-> <<>>, depth |-> 0] /\ pc = "idle"
    /\ response = NoResponse /\ fetches = <<>> /\ saves = <<>>

ChunkStageIdle ==
    processed = {} /\ pending = {} /\ arrived = <<>> /\ normalized = <<>>
      /\ all_documents = <<>> /\ docs_file = <<>>

RunIdle == stage = "idle" /\ runs = 0 /\ written = {} /\ ChunkStageIdle

\* __init__ and the call crawl(args.url) of main: a new crawler with empty
\* visited set and zero count, about to run crawl(seed, 0)
NewCrawler(seed, depth_limit, download_limit) ==
    /\ start_url' = seed
    /\ domain' = DomainOf(seed)
    /\ max_depth' = depth_limit
    /\ max_downloads' = download_limit
    /\ visited_urls' = {}
    /\ download_count' = 0
    /\ stack' = <<>>
    /\ cur' = [url |-> seed, depth |-> 0]
    /\ pc' = "call"
    /\ response' = NoResponse
    /\ fetches' = <<>>
    /\ saves' = <<>>

\* the first run of the crawl stage on a machine whose output folders are empty
InitCrawl(sites) ==
    /\ start_url = SeedUrl
    /\ domain = DomainOf(SeedUrl)
    /\ max_depth \in 0..MaxDepthBound
    /\ max_downloads \in 0..MaxDownloadsBound
    /\ site \in sites
    /\ visited_urls = {}
    /\ download_count = 0
    /\ files = <<>>
    /\ stack = <<>>
    /\ cur = [url |-> SeedUrl, depth |-> 0]
    /\ pc = "call"
    /\ response = NoResponse
    /\ fetches = <<>>
    /\ saves = <<>>
    /\ stage = "crawl" /\ runs = 1 /\ written = {} /\ ChunkStageIdle
    /\ CleanIdle /\ ChunkIdle /\ QueryIdle

Init == InitCrawl(Sites)

\* f with the count of key k raised by one
Bump(f, k) == IF k \in DOMAIN f THEN [f EXCEPT ![k] = @ + 1] ELSE f @@ (k :> 1)

\* f with key k set to v: open(filepath, 'w') creates or overwrites
Put(f, k, v) == IF k \in DOMAIN f THEN [f EXCEPT ![k] = v] ELSE f @@ (k :> v)

\* a guard that forgets the download budget
OverBudgetDepthOnly(depth) == depth > max_depth

\* line 130: the depth and download budget guard
OverBudget(depth) == depth > max_depth \/ download_count >= max_downloads

\* a crawl that takes every address as new
VisitedNever(url) == FALSE

\* line 138: url in self.visited_urls
Visited(url) == url \in visited_urls

\* a crawl that forgets to record the address
AddVisitedNothing(url) == visited_urls

\* line 141: self.visited_urls.add(url)
AddVisited(url) == visited_urls \cup {url}

\* a recursive call that passes its own depth on
ChildDepthSame(depth) == depth

\* line 158: the depth of the recursive call
ChildDepth(depth) == depth + 1

\* a loop that never leaves its first <a>
AfterLinkSame(frame) == frame

\* line 154: the for loop moves on to the next <a>
AfterLink(frame) == [frame EXCEPT !.links = Tail(frame.links)]

\* a crawl() call returns: to the link loop of its caller, or out of main
Return(frames) ==
    /\ stack' = frames
    /\ pc' = IF frames = <<>> THEN "done" ELSE "links"

\* lines 130-131
CrawlReturnBudget ==
    /\ pc = "call"
    /\ OverBudget(cur.depth)
    /\ Return(stack)
    /\ UNCHANGED <<config, visited_urls, download_count, files, cur, response,
                   fetches, saves, runVars, cleanVars, chunkVars, queryVars>>

\* line 134 when urlparse raises inside clean_url: nothing in crawl or main
\* catches a ValueError, so it leaves every active call and ends the run
CrawlRaise ==
    /\ pc = "call"
    /\ ~OverBudget(cur.depth)
    /\ CleanUrl(domain, cur.url).kind = "ValueError"
    /\ pc' = "raised"
    /\ stack' = <<>>
    /\ UNCHANGED <<config, visited_urls, download_count, files, cur, response,
                   fetches, saves, runVars, cleanVars, chunkVars, queryVars>>

\* line 135: not url or not self.is_valid_url(url)
Rejected(url) ==
    \/ url.kind = "None"
    \/ url.kind = "str" /\ (url.val = <<>> \/ ~IsValidUrl(domain, url.val))

\* the address passed lines 134-136
Accepted(url) == url.kind = "str" /\ url.val # <<>> /\ IsValidUrl(domain, url.val)

\* lines 134-136
CrawlReturnInvalid ==
    /\ pc = "call"
    /\ ~OverBudget(cur.depth)
    /\ Rejected(CleanUrl(domain, cur.url))
    /\ Return(stack)
    /\ UNCHANGED <<config, visited_urls, download_count, files, cur, response,
                   fetches, saves, runVars, cleanVars, chunkVars, queryVars>>

\* lines 138-139
CrawlReturnVisited ==
    /\ pc = "call"
    /\ ~OverBudget(cur.depth)
    /\ \E url \in {CleanUrl(domain, cur.url)} :
         /\ Accepted(url)
         /\ Visited(url.val)
    /\ Return(stack)
    /\ UNCHANGED <<config, visited_urls, download_count, files, cur, response,
                   fetches, saves, runVars, cleanVars, chunkVars, queryVars>>

\* line 141
CrawlVisit ==
    /\ pc = "call"
    /\ ~OverBudget(cur.depth)
    /\ \E url \in {CleanUrl(domain, cur.url)} :
         /\ Accepted(url)
         /\ ~Visited(url.val)
         /\ visited_urls' = AddVisited(url.val)
         /\ cur' = [cur EXCEPT !.url = url.val]
    /\ pc' = "fetch"
    /\ UNCHANGED <<config, download_count, files, stack, response, fetches, saves,
                   runVars, cleanVars, chunkVars, queryVars>>

\* lines 144-145 and 160-161: requests.get raises, or raise_for_status does; the
\* RequestException is caught and logged, and the call returns
FetchFail ==
    /\ pc = "fetch"
    /\ \E status \in {ConnectionError} \cup ErrorStatuses \cup OkStatuses :
         /\ status = ConnectionError \/ RaiseForStatus(status)
         /\ response' = [url |-> cur.url, status |-> status]
    /\ fetches' = Bump(fetches, cur.url)
    /\ Return(stack)
    /\ UNCHANGED <<config, visited_urls, download_count, files, cur, saves,
                   runVars, cleanVars, chunkVars, queryVars>>

\* lines 149 and 93-126: save_content writes the file and counts it
SaveContent(url, mime_type, filename) ==
    /\ files' = Put(files, filename, FileContent(url, mime_type))
    /\ written' = written \cup {filename}
    /\ download_count' = download_count + 1
    /\ saves' = Bump(saves, url)

\* a crawl that searches every saved resource for links
ExploreAlways(url, mime_type, links) ==
    /\ stack' = <<[url |-> url, depth |-> cur.depth, links |-> links]>> \o stack
    /\ pc' = "links"

\* lines 152-154: only text/html is searched for links
Explore(url, mime_type, links) ==
    IF mime_type = TextHtml
    THEN /\ stack' = <<[url |-> url, depth |-> cur.depth, links |-> links]>> \o stack
         /\ pc' = "links"
    ELSE Return(stack)

\* lines 144-154 up to the first <a>: the response arrives without an error
\* status, its media type is detected, the content is saved, and for text/html
\* the links of the page are collected
FetchOk ==
    /\ pc = "fetch"
    /\ cur.url \in DOMAIN site
    /\ \E status \in {ConnectionError} \cup ErrorStatuses \cup OkStatuses :
         /\ status # ConnectionError /\ ~RaiseForStatus(status)
         /\ response' = [url |-> cur.url, status |-> status]
    /\ fetches' = Bump(fetches, cur.url)
    /\ \E mime_type \in {GetMimeType(cur.url, site[cur.url].content_type)} :
         /\ SaveContent(cur.url, mime_type, FileName(start_url, cur.url, mime_type))
         /\ Explore(cur.url, mime_type, site[cur.url].links)
    /\ UNCHANGED <<config, visited_urls, cur, stage, runs, processed, pending,
                   arrived, normalized, all_documents, docs_file, cleanVars, chunkVars,
                   queryVars>>

\* lines 156-158 for a non-empty href: urljoin resolves it (its ValueError is
\* not caught either) and crawl is called one level deeper
FollowLink(frame, joined) ==
    IF joined.kind = "ValueError"
    THEN /\ stack' = <<>> /\ pc' = "raised" /\ cur' = cur
    ELSE /\ stack' = <<AfterLink(frame)>> \o Tail(stack)
         /\ pc' = "call"
         /\ cur' = [url |-> joined.val, depth |-> ChildDepth(frame.depth)]

\* lines 154-158: the next <a> of the page; an empty href is skipped
NextLink ==
    /\ pc = "links"
    /\ stack # <<>> /\ stack[1].links # <<>>
    /\ IF Head(stack[1].links) = <<>>
       THEN /\ stack' = <<AfterLink(stack[1])>> \o Tail(stack)
            /\ pc' = "links" /\ cur' = cur
       ELSE FollowLink(stack[1], UrlJoin(stack[1].url, Head(stack[1].links)))
    /\ UNCHANGED <<config, visited_urls, download_count, files, response, fetches,
                   saves, runVars, cleanVars, chunkVars, queryVars>>

\* the for loop of line 154 is exhausted: the call returns
LoopEnd ==
    /\ pc = "links"
    /\ stack # <<>> /\ stack[1].links = <<>>
    /\ Return(Tail(stack))
    /\ UNCHANGED <<config, visited_urls, download_count, files, cur, response,
                   fetches, saves, runVars, cleanVars, chunkVars, queryVars>>

Next ==
    \/ CrawlReturnBudget
    \/ CrawlRaise
    \/ CrawlReturnInvalid
    \/ CrawlReturnVisited
    \/ CrawlVisit
    \/ FetchFail
    \/ FetchOk
    \/ NextLink
    \/ LoopEnd

\* one run of the crawl stage
Spec == Init /\ [][Next]_vars

(***************************************************************************)
(* The stages run one after another on one machine: main of                *)
(* 1_crawl_site_bs4.py and main of 2b_process_html_bs4.py                  *)
(***************************************************************************)

\* bound on the number of stage runs
MaxRuns == 3

\* the --url arguments of the crawl runs
RunSeeds == {SeedUrl, UrlA}

\* the sites of the runs
RunSites ==
    {s \in Sites : s[SeedUrl].links \in {<<HrefA, HrefB>>, <<HrefRoot, HrefOther>>}}

\* the run that was started has ended: main returned or an exception left it
RunEnded ==
    \/ stage = "crawl" /\ pc \in {"done", "raised"}
    \/ stage \in {"chunk_end", "chunk_raised"}

\* 1_crawl_site_bs4.py main: os.makedirs(output_dir, exist_ok=True) keeps what
\* the folder holds; then the crawler is constructed and crawl(args.url) runs
MainCrawl ==
    /\ RunEnded
    /\ runs < MaxRuns
    /\ \E seed \in RunSeeds, depth_limit \in 0..MaxDepthBound,
          download_limit \in 0..MaxDownloadsBound :
         NewCrawler(seed, depth_limit, download_limit)
    /\ stage' = "crawl"
    /\ runs' = runs + 1
    /\ written' = {}
    /\ UNCHANGED <<site, files, processed, pending, arrived, normalized, all_documents,
                   docs_file, cleanVars, chunkVars, queryVars>>

(***************************************************************************)
(* clean_url called on its own, on any string                              *)
(***************************************************************************)

\* bound on the segments of a path argument
MaxSegs == 2

\* what an argument begins with, before the scheme
UrlPads == {<<>>, <<" ">>, <<NBSP>>}

UrlSchemes == {<<"h", "t", "t", "p", ":", "/", "/">>, <<"h", "t", "t", "p", "s", ":", "/", "/">>, <<"f", "t", "p", ":", "/", "/">>, <<"h", "t", "t", "p", ":", "/">>, <<"h", "t", "t", "p", ":", NBSP, "/", "/">>, <<>>}

UrlNetlocs == {<<"e", ".", "o", "r", "g">>, <<"o", ".", "o", "r", "g">>, <<"[">>, <<"e", ".", "o", "r", "g", " ", "x">>, <<>>}

PathSegs == {<<"a">>, <<"b", " ", "c">>, <<"e", ".", "o", "r", "g">>, <<"x", "e", ".", "o", "r", "g", "x">>, <<"a", ";", "p">>, <<>>}

\* '/' before every segment
RECURSIVE Slashed(_)
Slashed(segs) == IF segs = <<>> THEN <<>> ELSE <<"/">> \o Head(segs) \o Slashed(Tail(segs))

\* paths of at most n segments, and paths around the length limit
UrlPaths(n) ==
    {Slashed(segs) : segs \in SeqsUpTo(PathSegs, n)}
      \cup {<<"/">> \o Rep("a", k) : k \in {MaxPathLen - 2, MaxPathLen - 1, MaxPathLen}}
      \cup {<<"/">> \o Rep("a", MaxPathLen - 8) \o <<"/", "e", ".", "o", "r", "g">>}

UrlTails == {<<>>, <<"?", "q", "=", "1", " ", "2">>, <<"#", "f">>}

\* the arguments whose path has at most n segments
CleanInputs(n) ==
    {pad \o scheme \o netloc \o path \o tail :
        pad \in UrlPads, scheme \in UrlSchemes, netloc \in UrlNetlocs,
        path \in UrlPaths(n), tail \in UrlTails}

\* a crawler for the seed, and a string about to be given to clean_url
InitClean ==
    /\ start_url = SeedUrl
    /\ domain = DomainOf(SeedUrl)
    /\ max_depth = 0 /\ max_downloads = 0
    /\ visited_urls = {} /\ download_count = 0 /\ files = <<>> /\ site = <<>>
    /\ stack = <<>> /\ cur = [url |-> <<>>, depth |-> 0] /\ pc = "idle"
    /\ response = NoResponse /\ fetches = <<>> /\ saves = <<>>
    /\ RunIdle /\ ChunkIdle /\ QueryIdle
    /\ clean_arg \in CleanInputs(MaxSegs)
    /\ clean_result = [kind |-> "idle", val |-> <<>>]

\* clean_url(clean_arg) runs to its return or to the exception that leaves it
CleanCall ==
    /\ clean_result.kind = "idle"
    /\ clean_result' = CleanUrl(domain, clean_arg)
    /\ UNCHANGED <<crawlVars, runVars, clean_arg, chunkVars, queryVars>>

NextClean == CleanCall

SpecClean == InitClean /\ [][NextClean]_vars

(***************************************************************************)
(* chunk_text(text, chunk_size=1000, overlap=200)                          *)
(***************************************************************************)

\* the defaults of chunk_text and the reach of its sentence search
ChunkSize == 1000
Overlap == 200
Window == 100

\* bound on the iterations of the while loop that are followed
MaxIterations == 25

\* '.!?'
Terminals == {".", "!", "?"}

Min(a, b) == IF a <= b THEN a ELSE b
Max(a, b) == IF a >= b THEN a ELSE b

\* an index of a Python slice: a negative one counts from the end of the
\* string, and both kinds are clamped to the string
SliceIndex(s, i) == IF i < 0 THEN Max(Len(s) + i, 0) ELSE Min(i, Len(s))

\* s[lo:hi] for indexes already inside the string
SliceBetween(s, lo, hi) == IF lo >= hi THEN <<>> ELSE SubSeq(s, lo + 1, hi)

\* text[a:b]
Slice(s, a, b) == SliceBetween(s, SliceIndex(s, a), SliceIndex(s, b))

\* a slice that forgets the overlap
SliceStartSame(cursor, lap) == cursor

\* lines 23-24: if start > 0: start = start - overlap
SliceStart(cursor, lap) == IF cursor > 0 THEN cursor - lap ELSE cursor

\* a search that goes on to the end of the text
BoundariesToEnd(s, end) ==
    {i \in (end - Window + 1)..(Len(s) - 1) :
        i > 0 /\ s[i + 1] \in Terminals /\ i + 2 <= Len(s) /\ IsSpace(s[i + 2])}

\* lines 28-29: the indexes i (counted from 0) of range(min(end + 100, text_len)
\* - 1, end - 100, -1) at which the test of line 29 holds
Boundaries(s, end) ==
    {i \in (end - Window + 1)..(Min(end + Window, Len(s)) - 1) :
        i > 0 /\ s[i + 1] \in Terminals /\ i + 2 <= Len(s) /\ IsSpace(s[i + 2])}

\* line 29 reads text[i + 1] past the end of the text: the first i of the range
\* is text_len - 1 and text[i] is a terminal
SearchRaises(s, end) ==
    /\ end < Len(s)
    /\ Len(s) <= end + Window
    /\ Len(s) - 1 > 0
    /\ s[Len(s)] \in Terminals

\* the largest element of a non-empty set of integers
Largest(S) == CHOOSE i \in S : \A j \in S : j <= i

\* lines 26-31: end moved to just after the last boundary found, if any
SnapTo(end, found) == IF found = {} THEN end ELSE Largest(found) + 1

SnapEnd(s, end) == IF end < Len(s) THEN SnapTo(end, Boundaries(s, end)) ELSE end

\* how many leading characters of the chunk cut from raw lie before cursor,
\* the end of the previous slice
ContextOf(cursor, raw, lap) ==
    IF cursor > 0 THEN Max(0, lap - LeadingSpace(raw)) ELSE 0

\* a list that takes the empty chunk as well
AppendedAlways(list, chunk) == Append(list, chunk)

\* lines 33-34: if chunk: chunks.append(chunk)
Appended(list, chunk) == IF chunk # <<>> THEN Append(list, chunk) ELSE list

\* lines 32-34: chunk = text[start:end].strip(); if chunk: chunks.append(chunk)
AppendChunk(cursor, raw, chunk) ==
    /\ chunks' = Appended(chunks, chunk)
    /\ contexts' = IF chunk # <<>> THEN Append(contexts, ContextOf(cursor, raw, overlap))
                   ELSE contexts

\* line 35: start = end
NextStart(end) == end

\* lines 20-35, one iteration of the while loop
IterateTo(from, end) ==
    /\ \E raw \in {Slice(text, from, end)} : AppendChunk(start, raw, Strip(raw))
    /\ slices' = Append(slices, <<from, end>>)
    /\ start' = NextStart(end)

ChunkStep ==
    /\ chunk_pc = "loop"
    /\ start < Len(text)
    /\ Len(slices) < MaxIterations
    /\ ~SearchRaises(text, start + chunk_size)
    /\ IterateTo(SliceStart(start, overlap), SnapEnd(text, start + chunk_size))
    /\ UNCHANGED <<crawlVars, runVars, cleanVars, text, chunk_size, overlap, chunk_pc,
                   queryVars>>

\* line 29 raises IndexError: chunk_text has no try, the call ends without a list
ChunkRaise ==
    /\ chunk_pc = "loop"
    /\ start < Len(text)
    /\ SearchRaises(text, start + chunk_size)
    /\ chunk_pc' = "IndexError"
    /\ UNCHANGED <<crawlVars, runVars, cleanVars, text, chunk_size, overlap, chunks,
                   start, contexts, slices, queryVars>>

\* lines 20 and 36: the loop ends, return chunks
ChunkReturn ==
    /\ chunk_pc = "loop"
    /\ start >= Len(text)
    /\ chunk_pc' = "returned"
    /\ UNCHANGED <<crawlVars, runVars, cleanVars, text, chunk_size, overlap, chunks,
                   start, contexts, slices, queryVars>>

\* chunk_text(text) as its callers see it: the list for the default chunk_size
\* and overlap, or the IndexError; cursor and list are those at the top of
\* the while loop
RECURSIVE ChunkTextFrom(_, _, _)
ChunkTextTo(s, cursor, end, list) ==
    ChunkTextFrom(s, NextStart(end),
                  Appended(list, Strip(Slice(s, SliceStart(cursor, Overlap), end))))

ChunkTextFrom(s, cursor, list) ==
    IF cursor >= Len(s) THEN [kind |-> "list", val |-> list]
    ELSE IF SearchRaises(s, cursor + ChunkSize) THEN [kind |-> "IndexError", val |-> <<>>]
    ELSE ChunkTextTo(s, cursor, SnapEnd(s, cursor + ChunkSize), list)

ChunkText(s) == ChunkTextFrom(s, 0, <<>>)

\* ---- the texts ----

\* bounds of the texts
MaxChunks == 2
MaxMarks == 2

\* the character at index i (from 0) of a text without marks: letters that
\* differ from their neighbours 200 places away
Letter(i) == <<"a", "b", "c", "d", "e", "f", "g">>[(i % 7) + 1]

\* marks: characters at chosen indexes (from 0)
Run(from, to, c) == [i \in from..to |-> c]

Marks ==
    { (ChunkSize - Overlap) :> " ",
      (ChunkSize - 51) :> "." @@ (ChunkSize - 50) :> " ",
      (ChunkSize + 49) :> "." @@ (ChunkSize + 50) :> "\n",
      (ChunkSize - 20) :> ".",
      (ChunkSize - Window) :> "?" @@ (ChunkSize - Window + 1) :> " ",
      (ChunkSize - Window + 1) :> "?" @@ (ChunkSize - Window + 2) :> " ",
      (ChunkSize + Window - 1) :> "." @@ (ChunkSize + Window) :> " ",
      (2 * ChunkSize - 1) :> "!" @@ (2 * ChunkSize) :> " ",
      (2 * ChunkSize + Window - 1) :> "." @@ (2 * ChunkSize + Window) :> " ",
      Run(ChunkSize - Overlap - 10, ChunkSize + 10, " "),
      Run(0, 1, " "),
      Run(0, ChunkSize + Window - 1, " ") }

\* the lengths: around the multiples of chunk_size
TextLens(chunk_count) ==
    {n \in {k * ChunkSize + d : k \in 0..chunk_count, d \in {-1, 0, 1, 50, 101, 500}} : n >= 0}

\* what a text ends with: html_to_markdown ends in a newline or in the ')' of a
\* link line; chunk_text takes any other string as well
Tails == {"\n", ")", "."}

MergeMarks(ms) == IF ms = <<>> THEN <<>> ELSE IF Len(ms) = 1 THEN ms[1] ELSE ms[1] @@ ms[2]

MakeText(len, marks, tail) ==
    [i \in 1..len |->
        IF i = len THEN tail
        ELSE IF (i - 1) \in DOMAIN marks THEN marks[i - 1]
        ELSE Letter(i - 1)]

\* the texts of at most chunk_count full chunks and at most mark_count marks
Texts(chunk_count, mark_count) ==
    {MakeText(len, MergeMarks(ms), tail) :
        len \in TextLens(chunk_count), ms \in SeqsUpTo(Marks, mark_count), tail \in Tails}

InitChunk ==
    /\ CrawlIdle /\ RunIdle /\ CleanIdle /\ QueryIdle
    /\ text \in Texts(MaxChunks, MaxMarks)
    /\ chunk_size = ChunkSize
    /\ overlap = Overlap
    /\ chunks = <<>>
    /\ start = 0
    /\ contexts = <<>>
    /\ slices = <<>>
    /\ chunk_pc = "loop"

NextChunk ==
    \/ ChunkStep
    \/ ChunkRaise
    \/ ChunkReturn

SpecChunk == InitChunk /\ [][NextChunk]_vars


\* ---- chunk_text called with other sizes ----

\* chunk_size arguments below and at the reach of the sentence search
Sizes == {10, Window - 2, Window - 1}

\* overlap arguments for a chunk_size: 0 <= overlap < chunk_size
OverlapsOf(size) == {0, 1, size - 1}

\* bound on the marks of a short text
MaxShortMarks == 1

\* marks of the short texts: sentence ends near the start and further on
ShortMarks ==
    { 1 :> "." @@ 2 :> " ",
      2 :> "!" @@ 3 :> "\n",
      60 :> "?" @@ 61 :> " ",
      Run(0, 3, " ") }

ShortLens == {0, 1, 5, 2 * Window + 30}

ShortTexts(mark_count) ==
    {MakeText(len, MergeMarks(ms), tail) :
        len \in ShortLens, ms \in SeqsUpTo(ShortMarks, mark_count), tail \in Tails}

InitChunkSizes ==
    /\ CrawlIdle /\ RunIdle /\ CleanIdle /\ QueryIdle
    /\ text \in ShortTexts(MaxShortMarks)
    /\ chunk_size \in Sizes
    /\ overlap \in OverlapsOf(chunk_size)
    /\ chunks = <<>>
    /\ start = 0
    /\ contexts = <<>>
    /\ slices = <<>>
    /\ chunk_pc = "loop"

\* chunk_text(text, chunk_size, overlap) for sizes other than the defaults
SpecChunkSizes == InitChunkSizes /\ [][NextChunk]_vars

(***************************************************************************)
(* 2b_process_html_bs4.py on parsed documents: extract_metadata,           *)
(* html_to_markdown, process_html_file and main                            *)
(***************************************************************************)

\* a parsed document is a tree of nodes: a string of the markup, or a tag
\* with its attributes and its children in document order
TextNode(s) == [name |-> "#text", text |-> s, attrs |-> <<>>, kids |-> <<>>]
Tag(name, attrs, kids) == [name |-> name, text |-> <<>>, attrs |-> attrs, kids |-> kids]

\* BeautifulSoup(html_content, 'html.parser'): the object that holds the
\* top-level nodes
Soup(kids) == Tag("[document]", <<>>, kids)

\* the nodes below the nodes of a list, in document order
RECURSIVE DescendantsOf(_)
DescendantsOf(kids) ==
    IF kids = <<>> THEN <<>>
    ELSE <<Head(kids)>> \o DescendantsOf(Head(kids).kids) \o DescendantsOf(Tail(kids))

\* tag.find_all(names): the tags below tag with one of the names, in document
\* order
FindAll(tag, names) == SelectSeq(DescendantsOf(tag.kids), LAMBDA n : n.name \in names)

\* tag.get_text(): the strings below tag, one after the other
GetText(tag) == Concat([k \in 1..Len(DescendantsOf(tag.kids)) |-> DescendantsOf(tag.kids)[k].text])

\* tag.get(attr, '')
GetAttr(tag, attr) == IF attr \in DOMAIN tag.attrs THEN tag.attrs[attr] ELSE <<>>

\* tag.string: the string of a tag whose only child is a string, or is a tag
\* that has a string; None otherwise
RECURSIVE StringOf(_)
StringOf(tag) ==
    IF Len(tag.kids) # 1 THEN None
    ELSE IF tag.kids[1].name = "#text" THEN Str(tag.kids[1].text)
    ELSE StringOf(tag.kids[1])

\* lines 43-49: the title and the description
TitleOf(titles) == IF titles = <<>> THEN Str(<<>>) ELSE StringOf(titles[1])

DescriptionOf(metas) == IF metas = <<>> THEN <<>> ELSE GetAttr(metas[1], "content")

\* lines 52-59: the content type from the lower-cased file name
ContentTypeOf(filename) ==
    IF Contains(filename, <<"m", "e", "m", "b", "e", "r", "s">>) THEN "member_list"
    ELSE IF Contains(filename, <<"a", "b", "o", "u", "t">>) THEN "about"
    ELSE IF Contains(filename, <<"n", "e", "w", "s">>) THEN "news"
    ELSE "unknown"

\* extract_metadata(html_content, file_path), for the file html_file of
\* CRAWL_DIR
ExtractMetadata(soup, html_file) ==
    [title |-> TitleOf(FindAll(soup, {"title"})),
     description |->
         DescriptionOf(SelectSeq(FindAll(soup, {"meta"}),
                                 LAMBDA n : GetAttr(n, "name") = <<"d", "e", "s", "c", "r", "i", "p", "t", "i", "o", "n">>)),
     content_type |-> ContentTypeOf(Lower(html_file)),
     source_file |-> [dir |-> "CRAWL_DIR", name |-> html_file]]

\* the tag names of the passes of html_to_markdown
Headings == {"h1", "h2", "h3", "h4", "h5", "h6"}
Blocks == {"p", "ul", "ol"}
Links == {"a"}

\* line 83: int(tag.name[1])
Level(name) ==
    CASE name = "h1" -> 1 [] name = "h2" -> 2 [] name = "h3" -> 3
      [] name = "h4" -> 4 [] name = "h5" -> 5 [] name = "h6" -> 6

\* a line of markdown_lines, with the place in document order (among the nodes
\* of the content region) of the tag it was made for
Line(s, at) == [line |-> s, of |-> at]

\* lines 84-85
HeadingLines(tag, at) ==
    <<Line(Rep("#", Level(tag.name)) \o <<" ">> \o Strip(GetText(tag)), at), Line(<<>>, at)>>

\* lines 90-93
ParagraphLines(stripped, at) ==
    IF stripped # <<>> THEN <<Line(stripped, at), Line(<<>>, at)>> ELSE <<>>

\* lines 95-99
ItemLines(stripped, at) ==
    SelectSeq([k \in 1..Len(stripped) |-> Line(<<"-", " ">> \o stripped[k], at)],
              LAMBDA l : Len(l.line) > 2)
      \o <<Line(<<>>, at)>>

\* lines 103-106
LinkLines(stripped, href, at) ==
    IF stripped # <<>> /\ href # <<>>
    THEN <<Line(<<"[">> \o stripped \o <<"]", "(">> \o href \o <<")">>, at)>>
    ELSE <<>>

\* the get_text().strip() of every tag of a list
StrippedTexts(tags) == [k \in 1..Len(tags) |-> Strip(GetText(tags[k]))]

\* what one pass appends for the tag at place `at`
TagLines(tag, at) ==
    IF tag.name \in Headings THEN HeadingLines(tag, at)
    ELSE IF tag.name = "p" THEN ParagraphLines(Strip(GetText(tag)), at)
    ELSE IF tag.name \in {"ul", "ol"} THEN ItemLines(StrippedTexts(FindAll(tag, {"li"})), at)
    ELSE LinkLines(Strip(GetText(tag)), GetAttr(tag, "href"), at)

\* a conversion that takes the three kinds of tags in one pass
PassLinesTogether(nodes, names) ==
    IF names = Headings
    THEN Concat([k \in 1..Len(nodes) |->
                    IF nodes[k].name \in Headings \cup Blocks \cup Links
                    THEN TagLines(nodes[k], k) ELSE <<>>])
    ELSE <<>>

\* lines 82, 88 and 102: one pass, `for tag in main_content.find_all(names)`
PassLines(nodes, names) ==
    Concat([k \in 1..Len(nodes) |->
               IF nodes[k].name \in names THEN TagLines(nodes[k], k) ELSE <<>>])

\* lines 79-106: markdown_lines for the nodes of the content region
MarkdownLinesOf(nodes) ==
    PassLines(nodes, Headings) \o PassLines(nodes, Blocks) \o PassLines(nodes, Links)

\* lines 71-76: the <main> tag if there is one, else the <body> tag, else
\* nothing
MainContent(mains, bodies) ==
    IF mains # <<>> THEN <<mains[1]>> ELSE IF bodies # <<>> THEN <<bodies[1]>> ELSE <<>>

MarkdownLinesIn(region) ==
    IF region = <<>> THEN <<>> ELSE MarkdownLinesOf(DescendantsOf(region[1].kids))

\* markdown_lines of html_to_markdown(soup)
MarkdownLines(soup) ==
    MarkdownLinesIn(MainContent(FindAll(soup, {"main"}), FindAll(soup, {"body"})))

\* line 108: '\n'.join(markdown_lines)
JoinLines(lines) == Join([k \in 1..Len(lines) |-> lines[k].line], "\n")

\* records numbered from 1
DocumentsFromOne(list, metadata) ==
    [i \in 1..Len(list) |->
        [content |-> list[i],
         metadata |-> [title |-> metadata.title,
                       description |-> metadata.description,
                       content_type |-> metadata.content_type,
                       source_file |-> metadata.source_file,
                       chunk_index |-> i,
                       total_chunks |-> Len(list)]]]

\* lines 128-138: one record per chunk
Documents(list, metadata) ==
    [i \in 1..Len(list) |->
        [content |-> list[i],
         metadata |-> [title |-> metadata.title,
                       description |-> metadata.description,
                       content_type |-> metadata.content_type,
                       source_file |-> metadata.source_file,
                       chunk_index |-> i - 1,
                       total_chunks |-> Len(list)]]]

\* lines 119-140, for the markdown_lines of the document: the records of
\* process_html_file, or the IndexError of chunk_text
RecordsOf(result, metadata) ==
    IF result.kind = "IndexError" THEN result
    ELSE [kind |-> "list", val |-> Documents(result.val, metadata)]

ProcessHtmlFileRecords(soup, html_file, lines) ==
    RecordsOf(ChunkText(JoinLines(lines)), ExtractMetadata(soup, html_file))

\* os.path.splitext(html_file)[0] + '.md' for a name that ends in '.html'
PreviewName(html_file) == SubSeq(html_file, 1, Len(html_file) - 5) \o <<".", "m", "d">>

DocsFile == <<"p", "r", "o", "c", "e", "s", "s", "e", "d", "_", "d", "o", "c", "u", "m", "e", "n", "t", "s", ".", "j", "s", "o", "n", "l">>

\* the markup of a page beyond its links is not part of the site: a file the
\* crawl wrote can hold a document without text or one with a paragraph
UnknownSoups ==
    {Soup(<<>>), Soup(<<Tag("body", <<>>, <<Tag("p", <<>>, <<TextNode(<<"t", "e", "x", "t">>)>>)>>)>>)}

\* lines 112-116: the parsed content of a file of CRAWL_DIR
SoupsOf(content) == IF "soup" \in DOMAIN content THEN {content.soup} ELSE UnknownSoups

\* 2b main, lines 144-153: rmtree and makedirs of PROCESSED_DATA_DIR, then the
\* names in CRAWL_DIR that end in '_text.html' are listed
MainChunk ==
    /\ RunEnded
    /\ runs < MaxRuns
    /\ processed' = {}
    /\ pending' = {f \in DOMAIN files : EndsWith(f, <<"_", "t", "e", "x", "t", ".", "h", "t", "m", "l">>)}
    /\ arrived' = <<>>
    /\ normalized' = <<>>
    /\ all_documents' = <<>>
    /\ docs_file' = <<>>
    /\ stage' = "chunk"
    /\ runs' = runs + 1
    /\ written' = {}
    /\ UNCHANGED <<crawlVars, cleanVars, chunkVars, queryVars>>

\* a preview for every file
WithPreviewAlways(names, html_file, documents) == names \cup {PreviewName(html_file)}

\* lines 162-168: the first chunk is written as <name>.md when there is one
WithPreview(names, html_file, documents) ==
    IF documents # <<>> THEN names \cup {PreviewName(html_file)} ELSE names

\* lines 159-168: the records are added to all_documents and, when there are
\* any, the first chunk is written as a preview
KeepDocuments(html_file, lines, documents) ==
    /\ pending' = pending \ {html_file}
    /\ arrived' = Append(arrived, html_file)
    /\ normalized' = Put(normalized, html_file, lines)
    /\ all_documents' = all_documents \o documents
    /\ processed' = WithPreview(processed, html_file, documents)
    /\ written' = WithPreview(written, html_file, documents)
    /\ stage' = stage

\* an exception of process_html_file leaves main
ProcessRaise ==
    /\ stage' = "chunk_raised"
    /\ UNCHANGED <<pending, arrived, normalized, all_documents, processed, written>>

\* lines 156-170 for one html_file, in the order os.listdir gave
ProcessFile(html_file, soup, lines) ==
    \E documents \in {ProcessHtmlFileRecords(soup, html_file, lines)} :
        IF documents.kind = "list" THEN KeepDocuments(html_file, lines, documents.val)
        ELSE ProcessRaise

ProcessHtmlFile ==
    /\ stage = "chunk"
    /\ \E html_file \in pending :
         \E soup \in SoupsOf(files[html_file]) :
           \E lines \in {MarkdownLines(soup)} : ProcessFile(html_file, soup, lines)
    /\ UNCHANGED <<crawlVars, runs, docs_file, cleanVars, chunkVars, queryVars>>

\* lines 172-176: the records of all documents are written, one per line
WriteDocuments ==
    /\ stage = "chunk"
    /\ pending = {}
    /\ docs_file' = all_documents
    /\ processed' = processed \cup {DocsFile}
    /\ written' = written \cup {DocsFile}
    /\ stage' = "chunk_end"
    /\ UNCHANGED <<crawlVars, runs, pending, arrived, normalized, all_documents,
                   cleanVars, chunkVars, queryVars>>

NextProcess ==
    \/ MainChunk
    \/ ProcessHtmlFile
    \/ WriteDocuments

InitRuns == InitCrawl(RunSites)

NextRuns ==
    \/ Next
    \/ MainCrawl
    \/ NextProcess

\* up to MaxRuns runs of the two stages, in any order, after a first crawl
SpecRuns == InitRuns /\ [][NextRuns]_vars

\* ---- the documents ----

\* bounds of the documents: the tags of a content region and the length of a
\* long paragraph
MaxElements == 2
ParagraphLen == 1100

\* a paragraph longer than a chunk, with the end of a sentence inside the reach
\* of the sentence search
LongText ==
    [i \in 1..ParagraphLen |->
        IF i = ChunkSize - 60 THEN "." ELSE IF i = ChunkSize - 59 THEN " " ELSE Letter(i)]

Plain(name, s) == Tag(name, <<>>, <<TextNode(s)>>)

Anchor(href, s) == Tag("a", [href |-> href], <<TextNode(s)>>)

\* what a content region is made of
Elements ==
    { Plain("h2", <<" ", "T", "i", "t", "l", "e", " ">>),
      Plain("p", <<" ", "i", "n", "t", "r", "o", ".", " ">>),
      Plain("p", LongText),
      Plain("p", <<" ", " ">>),
      Tag("ul", <<>>, <<Plain("li", <<"o", "n", "e">>), Tag("li", <<>>, <<>>),
                        Tag("li", <<>>, <<Plain("p", <<"t", "w", "o">>)>>)>>),
      Anchor(<<"/", "a">>, <<"l", "i", "n", "k">>),
      Plain("a", <<"x">>),
      Tag("p", <<>>, <<TextNode(<<"s", "e", "e", " ">>), Anchor(<<"/", "b">>, <<"b">>)>>) }

\* a page with a head and a <main> inside its body, a page with a body only,
\* and markup without a <body> tag
Wrapped(region) ==
    { Soup(<<Tag("html", <<>>,
                 <<Tag("head", <<>>,
                       <<Plain("title", <<"T">>),
                         Tag("meta", [name |-> <<"d", "e", "s", "c", "r", "i", "p", "t", "i", "o", "n">>, content |-> <<"d">>], <<>>)>>),
                   Tag("body", <<>>, <<Plain("h1", <<"M", "e", "n", "u">>), Tag("main", <<>>, region)>>)>>)>>),
      Soup(<<Tag("body", <<>>, region)>>),
      Soup(region) }

\* the documents with at most n elements in the content region
Soups(n) == UNION {Wrapped(region) : region \in SeqsUpTo(Elements, n)}

\* the documents of the second file: no markup, one line, three chunks
OtherSoups ==
    { Soup(<<>>),
      Soup(<<Tag("body", <<>>, <<Plain("p", <<" ", "i", "n", "t", "r", "o", ".", " ">>)>>)>>),
      Soup(<<Tag("body", <<>>, <<Plain("p", LongText), Plain("h3", <<"E", "n", "d">>),
                                Plain("p", LongText)>>)>>) }

Prettified(soup) == [from |-> SeedUrl, form |-> "prettified", soup |-> soup]

\* CRAWL_DIR after a crawl: two pages and a PDF
CrawlDirs(n) ==
    { <<"i", "n", "d", "e", "x", "_", "t", "e", "x", "t", ".", "h", "t", "m", "l">> :> Prettified(first) @@ <<"A", "b", "o", "u", "t", "_", "t", "e", "x", "t", ".", "h", "t", "m", "l">> :> Prettified(second)
        @@ <<"b", ".", "p", "d", "f">> :> FileContent(UrlB, ApplicationPdf) :
        first \in Soups(n), second \in OtherSoups }

\* a crawl has ended and left its files; the chunking stage has not run yet
InitProcess ==
    /\ start_url = SeedUrl /\ domain = DomainOf(SeedUrl)
    /\ max_depth = 0 /\ max_downloads = 0
    /\ visited_urls = {} /\ download_count = 0 /\ site = <<>>
    /\ stack = <<>> /\ cur = [url |-> <<>>, depth |-> 0] /\ pc = "done"
    /\ response = NoResponse /\ fetches = <<>> /\ saves = <<>>
    /\ files \in CrawlDirs(MaxElements)
    /\ stage = "crawl" /\ runs = 1 /\ written = {} /\ ChunkStageIdle
    /\ CleanIdle /\ ChunkIdle /\ QueryIdle

\* runs of the chunking stage on the files of a crawl
SpecProcess == InitProcess /\ [][NextProcess]_vars
(***************************************************************************)
(* 4_query_graph.py: main and query_knowledge_graph, with the              *)
(* GraphRAGManager of graphrag_utils.py                                    *)
(***************************************************************************)

\* bound on the questions read by main
MaxQuestions == 3

\* what input() can give
Questions == {"exit", "EXIT", "", "who is a member", "what is new"}

\* str.lower() on the inputs
QueryLower(q) == IF q = "EXIT" THEN "exit" ELSE q

\* MY_CONFIG.LLM_RUN_ENV
LlmRunEnvs == {"local_ollama", "openai"}

NoAnswer == [kind |-> "none", val |-> ""]

\* main, lines 36-46: a question is read; 'exit' ends the loop, an empty line
\* is skipped, anything else is passed to query_knowledge_graph
ReadQuestion ==
    /\ query_pc = "input"
    /\ asked < MaxQuestions
    /\ asked' = asked + 1
    /\ \E q \in Questions :
         IF QueryLower(q) = "exit"
         THEN query_pc' = "exit" /\ UNCHANGED <<query_text, answer>>
         ELSE IF q = ""
         THEN UNCHANGED <<query_pc, query_text, answer>>
         ELSE query_pc' = "init" /\ query_text' = q /\ answer' = NoAnswer
    /\ UNCHANGED <<crawlVars, runVars, cleanVars, chunkVars, driver_open, db_up,
                   embedder_ok, llm_up, llm_run_env>>

\* GraphRAGManager.__init__, what raises in it: session.run when the database
\* does not answer (line 32), the embedding model (line 47), the ValueError of
\* line 64
InitError ==
    IF ~db_up THEN "ServiceUnavailable"
    ELSE IF ~embedder_ok THEN "EmbeddingError"
    ELSE IF llm_run_env # "local_ollama" THEN "ValueError"
    ELSE "none"

\* query_knowledge_graph line 25, graph_manager = GraphRAGManager(), before the
\* try: the driver is created (line 23); an exception of __init__ leaves
\* query_knowledge_graph and main, which has no try either
ManagerInit ==
    /\ query_pc = "init"
    /\ driver_open' = TRUE
    /\ IF InitError = "none"
       THEN query_pc' = "query" /\ answer' = answer
       ELSE query_pc' = "raised" /\ answer' = [kind |-> "exception", val |-> InitError]
    /\ UNCHANGED <<crawlVars, runVars, cleanVars, chunkVars, query_text, asked, db_up,
                   embedder_ok, llm_up, llm_run_env>>

\* GraphRAG.search: the question is embedded, the index searched, the answer
\* generated
SearchError ==
    IF ~embedder_ok THEN "EmbeddingError"
    ELSE IF ~db_up THEN "ServiceUnavailable"
    ELSE IF ~llm_up THEN "LLMGenerationError"
    ELSE "none"

\* query_knowledge_graph lines 26-27 and GraphRAGManager.query: an exception of
\* the search is caught (line 163) and returned as text
ManagerQuery ==
    /\ query_pc = "query"
    /\ answer' = IF SearchError = "none" THEN [kind |-> "answer", val |-> query_text]
                 ELSE [kind |-> "error", val |-> SearchError]
    /\ query_pc' = "close"
    /\ UNCHANGED <<crawlVars, runVars, cleanVars, chunkVars, query_text, asked,
                   driver_open, db_up, embedder_ok, llm_up, llm_run_env>>

\* query_knowledge_graph lines 28-29: finally graph_manager.close(); the answer
\* goes back to main, which prints it and reads on
ManagerClose ==
    /\ query_pc = "close"
    /\ driver_open' = FALSE
    /\ query_pc' = "input"
    /\ UNCHANGED <<crawlVars, runVars, cleanVars, chunkVars, query_text, answer, asked,
                   db_up, embedder_ok, llm_up, llm_run_env>>

\* the collaborators fail and recover while main runs
DatabaseChange ==
    /\ query_pc \in {"input", "init", "query", "close"}
    /\ db_up' = ~db_up
    /\ UNCHANGED <<crawlVars, runVars, cleanVars, chunkVars, query_text, answer,
                   query_pc, asked, driver_open, embedder_ok, llm_up, llm_run_env>>

LlmChange ==
    /\ query_pc \in {"input", "init", "query", "close"}
    /\ llm_up' = ~llm_up
    /\ UNCHANGED <<crawlVars, runVars, cleanVars, chunkVars, query_text, answer,
                   query_pc, asked, driver_open, db_up, embedder_ok, llm_run_env>>

InitQuery ==
    /\ CrawlIdle /\ RunIdle /\ CleanIdle /\ ChunkIdle
    /\ query_text = ""
    /\ answer = NoAnswer
    /\ query_pc = "input"
    /\ asked = 0
    /\ driver_open = FALSE
    /\ db_up \in BOOLEAN
    /\ embedder_ok \in BOOLEAN
    /\ llm_up \in BOOLEAN
    /\ llm_run_env \in LlmRunEnvs

NextQuery ==
    \/ ReadQuestion
    \/ ManagerInit
    \/ ManagerQuery
    \/ ManagerClose
    \/ DatabaseChange
    \/ LlmChange

SpecQuery == InitQuery /\ [][NextQuery]_vars

(***************************************************************************)
(* Properties                                                              *)
(***************************************************************************)

\* the sum of the counts of a history
RECURSIVE Total(_)
TotalFrom(f, k) == f[k] + Total([x \in DOMAIN f \ {k} |-> f[x]])
Total(f) == IF DOMAIN f = {} THEN 0 ELSE TotalFrom(f, CHOOSE k \in DOMAIN f : TRUE)

\* the network location of an address, which is what is_valid_url compares
Host(url) == UrlParse(url).netloc

\* C1: in every state of a crawl run with max_downloads = N, download_count is
\* at most N, and so are the number of save_content calls and the number of
\* files the run wrote.
DownloadBudget ==
    /\ download_count <= max_downloads
    /\ Total(saves) <= max_downloads
    /\ Cardinality(written) <= max_downloads

\* the budget is used up and a call within the depth limit is about to be refused
DownloadBudgetReached ==
    /\ pc = "call"
    /\ max_downloads >= 2
    /\ download_count = max_downloads
    /\ cur.depth <= max_depth
    /\ cur.url \notin visited_urls

\* C2: a fetch is issued at most once per canonical address: the address is in
\* visited_urls, and has not been fetched, when its fetch is about to be issued;
\* every fetched address is in visited_urls; no address is fetched twice.
FetchOnce ==
    /\ \A u \in DOMAIN fetches : fetches[u] = 1 /\ u \in visited_urls
    /\ pc = "fetch" => cur.url \in visited_urls /\ cur.url \notin DOMAIN fetches

\* an address whose fetch failed is linked again, within the budget: the call
\* is about to return without a fetch
RevisitAfterFailure ==
    /\ pc = "call"
    /\ ~OverBudget(cur.depth)
    /\ cur.url \in visited_urls
    /\ cur.url \in DOMAIN fetches
    /\ cur.url \notin DOMAIN saves

\* the canonical form of a resolved link, when it has one
Canonical(joined) == IF joined.kind = "str" THEN CleanUrl(domain, joined.val) ELSE joined

\* the canonical addresses the page at u links to
LinkTargets(u) ==
    IF u \in DOMAIN site /\ GetMimeType(u, site[u].content_type) = TextHtml
    THEN {c.val : c \in {x \in {Canonical(UrlJoin(u, site[u].links[k])) :
                                  k \in {j \in 1..Len(site[u].links) : site[u].links[j] # <<>>}} :
                          x.kind = "str"}}
    ELSE {}

\* the addresses one more link away
Expand(S) == S \cup UNION {LinkTargets(u) : u \in S}

\* the canonical addresses whose shortest link-path from the seed is at most d
RECURSIVE WithinDepth(_)
WithinDepth(d) ==
    IF d = 0 THEN {c.val : c \in {x \in {CleanUrl(domain, start_url)} : x.kind = "str"}}
    ELSE Expand(WithinDepth(d - 1))

\* C3: with max_depth = D, an address whose fetch is issued was reached by crawl
\* at a depth of at most D, and its shortest link-path from the seed is at most D.
DepthBound ==
    pc = "fetch" => cur.depth <= max_depth /\ cur.url \in WithinDepth(max_depth)

\* a link one level below the depth limit is about to be refused, within the
\* download budget
DepthLimitReached ==
    /\ pc = "call"
    /\ max_depth >= 1
    /\ cur.depth = max_depth + 1
    /\ download_count < max_downloads
    /\ cur.url \notin visited_urls

Answered(status) == pc = "fetch" /\ fetches' # fetches /\ response'.status = status

\* what a failed fetch leaves: no file, no count, no link of the address, no
\* exception, and the link loops of the ancestors as they were
Isolated ==
    /\ files' = files
    /\ written' = written
    /\ saves' = saves
    /\ download_count' = download_count
    /\ stack' = stack
    /\ pc' = IF stack = <<>> THEN "done" ELSE "links"

RECURSIVE PendingLinks(_)
PendingLinks(frames) ==
    IF frames = <<>> THEN 0 ELSE Len(Head(frames).links) + PendingLinks(Tail(frames))

\* no more addresses can be visited than the seed and one for every link of
\* the site
AddressBound == 1 + Total([u \in DOMAIN site |-> Len(site[u].links)])

\* the largest number of links on a page
MostLinks == CHOOSE n \in {Len(site[u].links) : u \in DOMAIN site} :
                 \A u \in DOMAIN site : Len(site[u].links) <= n

\* what one more visit or fetch is worth: more than the steps a page can add
VisitWeight == 2 * MostLinks + 3

\* a number that every step of the crawl makes smaller: the visits and fetches
\* still possible, the links still to follow, the calls still active and the
\* guards still to pass
VariantOf(seen, fetched, frames, at) ==
    VisitWeight * (2 * AddressBound - Cardinality(seen) - Cardinality(DOMAIN fetched))
      + 2 * PendingLinks(frames) + Len(frames) + (IF at = "call" THEN 1 ELSE 0)

CleanOutputDirectory ==
    /\ stage = "crawl" => DOMAIN files = written
    /\ stage \in {"chunk", "chunk_end"} => processed = written

\* C8: query_knowledge_graph never propagates an exception: every collaborator
\* error is returned as a textual error answer.
NeverPropagates == query_pc # "raised" /\ answer.kind \in {"none", "answer", "error"}

\* C9: for every string given to clean_url, the result is None or a string
\* that begins with http:// or https://, whose path holds no space and at most
\* 500 characters.
CleanResultShape ==
    clean_result.kind # "idle" =>
        \/ clean_result.kind = "None"
        \/ /\ clean_result.kind = "str"
           /\ StartsWith(clean_result.val, HttpPrefix) \/ StartsWith(clean_result.val, HttpsPrefix)
           /\ ~HasChar(UrlParse(clean_result.val).path, " ")
           /\ Len(UrlParse(clean_result.val).path) <= MaxPathLen

\* the characters of s that are not whitespace
NonSpace(s) == SelectSeq(s, LAMBDA c : ~IsSpace(c))

\* a text html_to_markdown can return: empty, or beginning with a character
\* that is not whitespace and ending with a newline or the ')' of a link line
Normalized(s) == s = <<>> \/ (~IsSpace(s[1]) /\ s[Len(s)] \in {"\n", ")"})

\* the chunks without the leading context of each
WithoutContext == [k \in 1..Len(chunks) |-> From(chunks[k], contexts[k] + 1)]

\* the chunks without the last `overlap` characters of each non-first chunk
WithoutLastOverlap ==
    [k \in 1..Len(chunks) |->
        IF k = 1 THEN chunks[k] ELSE SubSeq(chunks[k], 1, Len(chunks[k]) - Overlap)]

\* the chunks without the first `overlap` characters of each non-first chunk
WithoutFirstOverlap ==
    [k \in 1..Len(chunks) |-> IF k = 1 THEN chunks[k] ELSE From(chunks[k], Overlap + 1)]

\* C10, as amended: concatenating the chunks returned by chunk_text(text, 1000,
\* 200), after dropping from each non-first chunk its leading context (its first
\* overlap - w characters, w being the number of leading whitespace characters
\* that strip() removed from its slice; nothing when w >= overlap), gives a
\* string whose non-whitespace content is that of the text.
RoundTripContext ==
    chunk_pc = "returned" =>
        /\ NonSpace(Concat(WithoutContext)) = NonSpace(text)
        /\ \A k \in 1..Len(chunks) : contexts[k] <= Overlap
        /\ chunks # <<>> => contexts[1] = 0

\* a normalized text gave several chunks, one of them cut from a slice that
\* began with whitespace
TrimmedContextReturned ==
    /\ chunk_pc = "returned"
    /\ Normalized(text)
    /\ Len(chunks) >= 2
    /\ \E k \in 2..Len(chunks) : contexts[k] < Overlap

\* C10 as stated: for a normalized text, dropping the last `overlap` characters
\* of each non-first chunk (or, reading the context as the shared characters
\* the chunk begins with, its first `overlap` characters) and concatenating
\* gives the non-whitespace content of the text.
RoundTripOverlap ==
    chunk_pc = "returned" /\ Normalized(text) =>
        \/ NonSpace(Concat(WithoutLastOverlap)) = NonSpace(text)
        \/ NonSpace(Concat(WithoutFirstOverlap)) = NonSpace(text)


\* C15: for every text, every chunk_size >= 1 and every overlap with 0 <= overlap
\* < chunk_size, the while loop of chunk_text terminates: the start cursor set
\* at the end of an iteration is strictly greater than the start cursor the
\* iteration began with, so there are at most len(text) iterations.
StartAdvances ==
    /\ [][chunk_pc = "loop" /\ chunk_pc' = "loop" => start' > start]_vars
    /\ [](Len(slices) <= Len(text))

\* no '.', '!' or '?' anywhere in s
NoPunctuation(s) == \A i \in 1..Len(s) : s[i] \notin Terminals

\* the strings of a list that are not empty
NonEmpty(list) == SelectSeq(list, LAMBDA chunk : chunk # <<>>)

\* C13, as amended: chunk_text on a text of length 1500 without sentence
\* punctuation, with size 1000 and overlap 200, takes the slices [0, 1000) and
\* [800, 1500) and returns, in that order, those of the two trimmed slices that
\* are not empty.
TwoTrimmedSlices ==
    chunk_pc # "loop" /\ Len(text) = 1500 /\ NoPunctuation(text) =>
        /\ chunk_pc = "returned"
        /\ Len(slices) = 2 /\ slices[1] = <<0, 1000>> /\ slices[2][1] = 800
        /\ chunks = NonEmpty(<<Strip(SubSeq(text, 1, 1000)), Strip(SubSeq(text, 801, 1500))>>)

\* the scenario text gave two chunks, the second shorter than its slice
ScenarioChunkTrimmed ==
    /\ chunk_pc = "returned" /\ Len(text) = 1500 /\ NoPunctuation(text)
    /\ Len(chunks) = 2
    /\ Len(chunks[1]) = 1000
    /\ Len(chunks[2]) < 700

\* C13 as stated: chunk_text on a text of length 1500 without sentence
\* punctuation returns exactly 2 chunks, the slice [0, 1000) and the slice
\* [800, 1500).
TwoRawSlices ==
    chunk_pc # "loop" /\ Len(text) = 1500 /\ NoPunctuation(text) =>
        /\ chunk_pc = "returned"
        /\ chunks = <<SubSeq(text, 1, 1000), SubSeq(text, 801, 1500)>>

\* C18: with size 1000 and overlap 200, for every text, each slice after the
\* first starts exactly `overlap` characters before the end of the slice taken
\* before it, at a position that is not negative and inside that slice, and
\* when the call has ended the slices cover the text from 0 to its length.
OverlapCover ==
    /\ \A k \in 1..(Len(slices) - 1) :
         /\ slices[k + 1][1] = slices[k][2] - Overlap
         /\ slices[k + 1][1] >= 0
         /\ slices[k + 1][1] >= slices[k][1]
    /\ slices # <<>> => slices[1][1] = 0
    /\ chunk_pc # "loop" /\ text # <<>> =>
         slices # <<>> /\ slices[Len(slices)][2] >= Len(text)

\* the part of C18 that holds of every call, and of the calls that return
OverlapCoverReturned ==
    /\ \A k \in 1..(Len(slices) - 1) :
         /\ slices[k + 1][1] = slices[k][2] - Overlap
         /\ slices[k + 1][1] >= 0
         /\ slices[k + 1][1] >= slices[k][1]
    /\ slices # <<>> => slices[1][1] = 0
    /\ chunk_pc = "returned" /\ text # <<>> =>
         slices # <<>> /\ slices[Len(slices)][2] >= Len(text)

\* the scenario of C12: depth limit 1, download limit 2, and a seed page that
\* links to a page of its own domain and to another domain, in either order
ScenarioSite ==
    /\ max_depth = 1 /\ max_downloads = 2
    /\ site[SeedUrl].links \in {<<HrefA, HrefOther>>, <<HrefOther, HrefA>>}

\* C12: in the scenario (seed, max_depth = 1, max_downloads = 2, the seed page
\* links to a page of the same domain and to another domain, in either order,
\* and every fetch issued is answered with the resource), the run ends with
\* exactly 2 files saved, the seed page and the linked page, and no fetch is
\* ever issued to the other domain.
ScenarioTwoFiles ==
    ScenarioSite =>
        /\ \A u \in DOMAIN fetches : Host(u) # Host(UrlOther)
        /\ pc \in {"done", "raised"} /\ (\A u \in DOMAIN fetches : u \in DOMAIN saves) =>
             /\ pc = "done"
             /\ DOMAIN saves = {SeedUrl, UrlA}
             /\ download_count = 2
             /\ written = {<<"i", "n", "d", "e", "x", "_", "t", "e", "x", "t", ".", "h", "t", "m", "l">>, <<"a", "_", "t", "e", "x", "t", ".", "h", "t", "m", "l">>}
             /\ DOMAIN files = written

\* the scenario ended with its two files, the link to the other domain first
ScenarioEnded ==
    /\ ScenarioSite
    /\ site[SeedUrl].links = <<HrefOther, HrefA>>
    /\ pc = "done"
    /\ download_count = 2

\* the media type get_mime_type detects for the resource at u
MimeOf(u) == GetMimeType(u, site[u].content_type)

\* C14: a successfully fetched resource whose detected media type is not
\* text/html is persisted and counted, and the call returns without a link
\* loop; every call that is in its link loop is on a text/html resource, so
\* crawl is never invoked on a link of another resource.
BinaryLeaves ==
    /\ [][pc = "fetch" /\ fetches' # fetches /\ ~RaiseForStatus(response'.status)
            /\ response'.status # ConnectionError /\ MimeOf(cur.url) # TextHtml
          => /\ download_count' = download_count + 1
             /\ saves' = Bump(saves, cur.url)
             /\ \E f \in DOMAIN files' : files'[f] = [from |-> cur.url, form |-> "raw"]
             /\ stack' = stack
             /\ pc' = IF stack = <<>> THEN "done" ELSE "links"]_vars
    /\ [](\A k \in 1..Len(stack) : MimeOf(stack[k].url) = TextHtml)

\* a PDF that carries a link was saved within the budget, and the crawl ended
\* without a call for the address it links to
BinarySaved ==
    /\ pc = "done"
    /\ site[UrlB].content_type = ApplicationPdf /\ site[UrlB].links = <<HrefC>>
    /\ UrlB \in DOMAIN saves
    /\ max_depth = 2 /\ download_count < max_downloads
    /\ UrlC \notin visited_urls

\* what a guard leaves alone
GuardFrame ==
    UNCHANGED <<visited_urls, download_count, files, written, fetches, saves, response>>

\* the call returns to its caller
GuardReturn == stack' = stack /\ pc' = IF stack = <<>> THEN "done" ELSE "links"

LastWriterWins ==
    /\ [][saves' # saves =>
            /\ \E f \in DOMAIN files' :
                 /\ files'[f].from = cur.url
                 /\ \A g \in DOMAIN files' \ {f} : g \in DOMAIN files /\ files'[g] = files[g]
            /\ download_count' = download_count + 1]_vars
    /\ [](Cardinality(DOMAIN files) <= download_count)

\* two addresses of one run were written to the same file
CollisionOverwritten ==
    /\ pc = "done"
    /\ Cardinality(DOMAIN saves) = 2
    /\ download_count = 2
    /\ Cardinality(DOMAIN files) = 1

\* the elements of a sequence
Range(s) == {s[i] : i \in 1..Len(s)}

\* the records of all_documents that were made for html_file, in list order
RecordsFor(html_file) ==
    SelectSeq(all_documents, LAMBDA d : d.metadata.source_file.name = html_file)

\* the text html_to_markdown returned for a file that was processed
TextOf(html_file) == JoinLines(normalized[html_file])

\* C11: for every document, the records of process_html_file carry the
\* chunk_index values 0, 1, ..., total_chunks - 1 in list order, total_chunks
\* is the number of records in every record, and every content is a non-empty
\* trimmed string.
ChunkIndexes ==
    \A f \in Range(arrived) :
        \A i \in 1..Len(RecordsFor(f)) :
            /\ RecordsFor(f)[i].metadata.chunk_index = i - 1
            /\ RecordsFor(f)[i].metadata.total_chunks = Len(RecordsFor(f))
            /\ RecordsFor(f)[i].content # <<>>
            /\ Strip(RecordsFor(f)[i].content) = RecordsFor(f)[i].content

\* two documents were processed, each into several records
SeveralRecords ==
    /\ Len(arrived) = 2
    /\ all_documents # <<>>
    /\ all_documents[1].metadata.total_chunks >= 2
    /\ all_documents[Len(all_documents)].metadata.total_chunks >= 3
    /\ all_documents[Len(all_documents)].metadata.chunk_index >= 2

\* where html_file is in the order of arrival
ArrivalOf(html_file) == CHOOSE k \in 1..Len(arrived) : arrived[k] = html_file

\* C16: a document that yields zero chunks is not an error: it adds no record
\* and no preview file, and the documents after it are processed; the records
\* are kept, and written, in the order the documents arrived and, within a
\* document, in chunk-index order; every file of the listing is processed and
\* every document with text has its records.
EmptyDocumentSkipped ==
    /\ stage # "chunk_raised"
    /\ \A f \in Range(arrived) :
         IF Strip(TextOf(f)) = <<>>
         THEN RecordsFor(f) = <<>> /\ PreviewName(f) \notin processed
         ELSE RecordsFor(f) # <<>> /\ PreviewName(f) \in processed
    /\ \A i, j \in 1..Len(all_documents) :
         i < j =>
           \/ ArrivalOf(all_documents[i].metadata.source_file.name)
                < ArrivalOf(all_documents[j].metadata.source_file.name)
           \/ /\ all_documents[i].metadata.source_file = all_documents[j].metadata.source_file
              /\ all_documents[i].metadata.chunk_index < all_documents[j].metadata.chunk_index
    /\ stage = "chunk_end" =>
         /\ docs_file = all_documents
         /\ Range(arrived) = {f \in DOMAIN files : EndsWith(f, <<"_", "t", "e", "x", "t", ".", "h", "t", "m", "l">>)}
         /\ Len(arrived) = Cardinality(Range(arrived))

\* a document without chunks came first, and the records of the document after
\* it were written
LaterDocumentWritten ==
    /\ stage = "chunk_end"
    /\ Len(arrived) = 2
    /\ RecordsFor(arrived[1]) = <<>>
    /\ Len(docs_file) >= 2
    /\ docs_file[1].metadata.source_file.name = arrived[2]

\* the nodes of the content region of a document, in document order
RegionNodes(region) == IF region = <<>> THEN <<>> ELSE DescendantsOf(region[1].kids)

NodesOf(soup) == RegionNodes(MainContent(FindAll(soup, {"main"}), FindAll(soup, {"body"})))

\* the tag names of the lines made for html_file, line by line
TagNames(html_file) ==
    [k \in 1..Len(normalized[html_file]) |->
        NodesOf(files[html_file].soup)[normalized[html_file][k].of].name]

\* the pass of html_to_markdown that handles a tag name
PassOf(name) == IF name \in Headings THEN 1 ELSE IF name \in Blocks THEN 2 ELSE 3

\* C17, as amended: in the lines of html_to_markdown, the heading lines come
\* first, in the document order of the heading elements; then the paragraph and
\* list lines, in the document order of the p, ul and ol elements; then the
\* link lines, in the document order of the a elements.
PassOrder ==
    \A f \in Range(arrived) :
        \A i, j \in 1..Len(normalized[f]) :
            i < j =>
              /\ PassOf(TagNames(f)[i]) <= PassOf(TagNames(f)[j])
              /\ PassOf(TagNames(f)[i]) = PassOf(TagNames(f)[j])
                   => normalized[f][i].of <= normalized[f][j].of

\* a document was converted in which a paragraph comes before a heading
HeadingAfterParagraph ==
    \E f \in Range(arrived) :
        \E i, j \in 1..Len(normalized[f]) :
            /\ i < j
            /\ TagNames(f)[i] \in Headings /\ TagNames(f)[j] = "p"
            /\ normalized[f][i].of > normalized[f][j].of

\* C17 as stated: the lines for headings, paragraphs and lists appear in the
\* document order of their elements, and every link line comes after all of
\* them.
DocumentOrder ==
    \A f \in Range(arrived) :
        \A i, j \in 1..Len(normalized[f]) :
            i < j =>
              /\ PassOf(TagNames(f)[i]) = 3 => PassOf(TagNames(f)[j]) = 3
              /\ PassOf(TagNames(f)[i]) < 3 /\ PassOf(TagNames(f)[j]) < 3
                   => normalized[f][i].of <= normalized[f][j].of

\* the canonical addresses of the seed's domain the page at u links to
SameDomainTargets(u) == {v \in LinkTargets(u) : IsValidUrl(domain, v)}

\* the same-domain canonical addresses whose shortest link-path from the seed,
\* through pages of the seed's domain, is at most d
RECURSIVE ReachableWithin(_)
ReachableWithin(d) ==
    IF d = 0 THEN {v \in WithinDepth(0) : IsValidUrl(domain, v)}
    ELSE ReachableWithin(d - 1)
           \cup UNION {SameDomainTargets(u) : u \in ReachableWithin(d - 1)}

\* the crawl returned, no fetch of it failed and the download budget was never
\* reached
UnhinderedEnd ==
    /\ pc = "done"
    /\ download_count < max_downloads
    /\ \A u \in DOMAIN fetches : u \in DOMAIN saves

\* C21: in a run where no fetch fails and download_count never reaches
\* max_downloads, every same-domain canonical address the server holds whose
\* shortest link-path from the seed is at most max_depth has been fetched and
\* persisted when the crawl ends, whatever the order of the links.
ShortestPathReached ==
    UnhinderedEnd =>
        \A u \in ReachableWithin(max_depth) \cap DOMAIN site :
            u \in DOMAIN fetches /\ u \in DOMAIN saves

\* every address the unhindered crawl did fetch lies within the depth bound
\* along its shortest link-path
FetchedWithinBound ==
    UnhinderedEnd => DOMAIN saves \subseteq ReachableWithin(max_depth)

\* the seed page links to /a and then to /b, /a links to /b and /b to /c: the
\* crawl with max_depth = 2 reached /b through /a at depth 2, refused /c at
\* depth 3, and ended without /c, which is two links from the seed through /b
HiddenByLongerPath ==
    /\ UnhinderedEnd
    /\ max_depth = 2
    /\ site[SeedUrl].links = <<HrefA, HrefB>>
    /\ site[UrlA].links = <<HrefB>> /\ site[UrlB].links = <<HrefC>>
    /\ DOMAIN saves = {SeedUrl, UrlA, UrlB}
    /\ UrlC \in ReachableWithin(2) \ ReachableWithin(1)
    /\ UrlC \notin visited_urls


\* C22: the sentence-boundary search of chunk_text only reads positions inside
\* the text: for every text and every tentative end before the end of the
\* text, also when the last character is '.', '!' or '?' and lies within 100
\* characters after the tentative end, no iteration ends with an IndexError,
\* and the call that has ended has returned a list.
SearchInsideText ==
    /\ chunk_pc # "IndexError"
    /\ chunk_pc \notin {"loop", "idle"} => chunk_pc = "returned"

\* the search read the position after the last character: the text ends with a
\* terminal at most 100 characters after the tentative end of the first slice
ReadPastTheEnd ==
    /\ chunk_pc = "IndexError"
    /\ slices = <<>> /\ chunks = <<>>
    /\ Len(text) \in (ChunkSize + 1)..(ChunkSize + Window)
    /\ text[Len(text)] \in Terminals

\* C23: with size = 1000 and overlap = 200, for every text, the first chunk of
\* the list of chunk_text has at most size + 100 = 1100 characters and every
\* later chunk has at most size + overlap + 100 = 1300 characters; the slice a
\* chunk is cut from begins at most `overlap` before the tentative end of the
\* slice before it and ends at most 100 after its own tentative end.
ChunkLengthBound ==
    /\ \A k \in 1..Len(chunks) :
         Len(chunks[k]) <= IF k = 1 THEN ChunkSize + Window
                           ELSE ChunkSize + Overlap + Window
    /\ \A k \in 1..Len(slices) :
         slices[k][2] - slices[k][1] <= IF k = 1 THEN ChunkSize + Window
                                        ELSE ChunkSize + Overlap + Window

\* a call returned a second chunk of size + overlap + 100 characters: its
\* slice begins `overlap` before the end of the first and the search moved its
\* end forward by 100
LongestLaterChunk ==
    /\ chunk_pc = "returned"
    /\ Len(chunks) >= 2
    /\ Len(chunks[1]) = ChunkSize
    /\ Len(chunks[2]) = ChunkSize + Overlap + Window

\* a call returned a first chunk of size + 100 characters
LongestFirstChunk ==
    /\ chunk_pc = "returned"
    /\ chunks # <<>>
    /\ Len(chunks[1]) = ChunkSize + Window

\* the first slice was all whitespace, so the first chunk of the list returned
\* was cut from the second slice
FirstChunkOfSecondSlice ==
    /\ chunk_pc = "returned"
    /\ Len(slices) >= 2
    /\ Len(chunks) = Len(slices) - 1
    /\ Strip(Slice(text, slices[1][1], slices[1][2])) = <<>>

====
